---- MODULE Spec2Model ----
(***************************************************************************)
(* Serpentines: the per-monitor overlay manager (serpentines-win            *)
(* overlay.rs), the tray application loop (serpentines-win lib.rs) and the  *)
(* settings UI thread (serpentines-ui lib.rs).                              *)
(*                                                                         *)
(* The subsystems share this module and are checked under their own        *)
(* specifications:                                                         *)
(*   SpecOverlay   the WinOverlayManager of overlay.rs, the windows it      *)
(*                 creates and the messages the OS dispatches to them,     *)
(*                 the returns of the manager's calls recorded;            *)
(*   SpecWndProc   the same with the window procedure calls recorded, and  *)
(*                 the window procedure of lib.rs;                         *)
(*   FairSpecSync  the manager under a fair message loop;                  *)
(*   SpecLifetime  the manager as a value its owner may move and drop;     *)
(*   SpecEnv       the manager, failures of handle_environment_change      *)
(*                 remembered;                                             *)
(*   SpecDestroy   the manager, the windows handed to DestroyWindow        *)
(*                 remembered;                                             *)
(*   SpecCalls     the manager, each refresh_overlays recorded with the    *)
(*                 state it began in;                                      *)
(*   SpecRepeat    the manager, each refresh_overlays recorded with the    *)
(*                 call that returned before it began;                     *)
(*   FairSpecApp   run_app of lib.rs, its overlay window and the tray,     *)
(*                 the main thread running on;                             *)
(*   FairSpecUi    spawn_ui_thread of serpentines-ui, the forwarder thread *)
(*                 and SerpentinesApp::update, both threads running on.    *)
(*                                                                         *)
(* The operating system is the environment.  What it may do:               *)
(*   - change the set of attached monitors and their geometry;             *)
(*   - dispatch a message to a live window when the owning thread          *)
(*     retrieves messages, that is between two calls into the manager;     *)
(*   - send WM_DPICHANGED synchronously to a window from inside            *)
(*     SetWindowPos on that window (the window procedure then runs inside  *)
(*     the SetWindowPos call);                                             *)
(*   - fail any Win32 call that returns a status;                          *)
(*   - deliver WM_CLOSE to a window (DefWindowProcW then destroys it).     *)
(***************************************************************************)
EXTENDS Integers, Sequences, FiniteSets, TLC

\* ---------------------------------------------------------------- bounds
MaxMonitors == 2
MaxRect == 2
MaxWindows == 2
MaxDepth == 2
MaxQueue == 2
MaxPosts == 3
MaxShows == 2
MaxMoves == 1
MaxOrigin == 1
MaxExtent == 2

HMonitors == 1..MaxMonitors
Rects == 1..MaxRect
Hwnds == 1..MaxWindows

\* ------------------------------------------------------------- constants
NullPtr == 0
ManagerPtr == 1
HTTRANSPARENT == -1
DefaultDpi == 96

EnvMessages == {"WM_DEVICECHANGE", "WM_DISPLAYCHANGE", "WM_DPICHANGED", "WM_SETTINGCHANGE"}
Messages == EnvMessages \cup {"WM_NCHITTEST", "WM_CLOSE", "WM_PAINT"}

VARIABLES
    attached,       \* hardware: monitor handle -> rect, 0 when not attached
    windows,        \* OS window table: hwnd -> [state, userdata]
    overlays,       \* WinOverlayManager.overlays: monitor id -> DisplayOverlay
    monitor_rects,  \* WinOverlayManager.monitor_rects
    stack,          \* activations of refresh_overlays, innermost first
    ret,            \* the manager call that returned in the last step
    wp,             \* the window procedure call the last step began
    observe,        \* what is recorded: "ret", "wp", "calls", "repeat" or "none"
    manager,        \* the WinOverlayManager value: the address it is at, and
                    \* whether it is alive, dropped, or no longer defined
    initialised,    \* a refresh called by the application has returned Ok and
                    \* the overlays were not torn down since
    owed,           \* the monitors changed under an initialised manager, and since
                    \* then they did not change again, no Win32 call failed and
                    \* no window was closed from outside
    env_failed,     \* a handle_environment_change has failed and no
                    \* refresh_overlays has returned Ok since
    destroy_called, \* the windows DestroyWindow was called on, by
                    \* destroy_overlay or by DefWindowProcW
    prev            \* the manager call that returned last: whether it was a
                    \* refresh_overlays that returned Ok, and the monitor ids
                    \* it enumerated (their rects are in monitor_rects)

VARIABLES
    app_pc,         \* run_app: where the main thread stands
    queue,          \* the main thread's posted messages
    posts,          \* how many messages were posted so far
    quit_flag,      \* PostQuitMessage was called and WM_QUIT not yet retrieved
    message,        \* run_app: the MSG that PeekMessageW filled last
    tray,           \* run_app: the tray icon
    overlay_hwnd,   \* run_app: the window create_overlay_window returned
    cleanup,        \* run_app: what it did after the loop, in order
    last            \* the message DispatchMessageW handled in the last step

VARIABLES
    ui_pc,          \* the UI thread of spawn_ui_thread
    command_channel,\* the UiCommand channel: commands sent and not yet received
    sent            \* how many commands were put into the channel so far

VARIABLES
    frame_pc,       \* the UI thread inside a frame: "idle", "end_frame", "commands"
    close_requested,\* the OS asked to close the settings window; the next
                    \* frame's input will say so
    frame_close,    \* the running frame's input said close_requested
    viewport_cmds,  \* viewport commands sent to the egui context, not yet taken
    output,         \* the viewport commands of the frame that ended, not yet applied
    closing,        \* eframe decided to close the root viewport
    visible,        \* the settings window is shown
    repaint,        \* a repaint is requested
    forwarder,      \* the forwarder thread: "absent" or "recv"
    hwnd_from_context_value,  \* the creator's Option<isize>: "Some" or "None"
    handled         \* the commands the forwarder handled, in order

\* ---- enumerate_monitors, one callback at a time ----
VARIABLES
    displays,       \* the monitors as the OS reports them, in enumeration order
    enumeration     \* a call of enumerate_monitors: where it stands, `monitors`
                    \* as collected so far, and what it returned

uvars == <<frame_pc, close_requested, frame_close, viewport_cmds, output, closing, visible,
           repaint, forwarder, hwnd_from_context_value, handled>>

avars == <<app_pc, queue, posts, quit_flag, message, tray, overlay_hwnd, cleanup, last>>

cvars == <<ui_pc, command_channel, sent>>

mvars == <<attached, windows, overlays, monitor_rects, stack, ret, wp, observe, manager>>

gvars == <<initialised, owed, env_failed, destroy_called, prev>>

evars == <<displays, enumeration>>

vars == <<mvars, gvars, avars, cvars, uvars, evars>>

\* ------------------------------------------------------- OS window table
FreeWindow == [state |-> "free", userdata |-> NullPtr]

IsAlive(w, h) == w[h].state = "alive"

Live == {h \in Hwnds : IsAlive(windows, h)}

FreeHandles == {h \in Hwnds : windows[h].state = "free"}

\* HWND values are not reused within the horizon of the model
NewHandle == CHOOSE h \in FreeHandles : \A g \in FreeHandles : h <= g

ZeroCalls == [h \in Hwnds |-> 0]

NoCall == [ok |-> FALSE, ids |-> {}]

NoRet == [op |-> "none", via |-> "none", result |-> "none", desired |-> {},
          tracked |-> {}, attempts |-> ZeroCalls, enum_ok |-> TRUE,
          logged |-> "none", monitors |-> <<>>, before |-> <<>>,
          repeats |-> FALSE]

NoWp == [proc |-> "none", msg |-> "none", userdata |-> NullPtr, lresult |-> 0,
         calls |-> 0]

Ret(r) == IF observe \in {"ret", "calls", "repeat"} THEN r ELSE NoRet

\* what a call enumerated and the state it began in, recorded with the call
Snap(x) == IF observe = "calls" THEN x ELSE <<>>

Wp(r) == IF observe = "wp" THEN r ELSE NoWp

\* ------------------------------------------------------ helper operators
Restrict(o, S) == [k \in S |-> o[k]]

Put(o, id, v) == [k \in DOMAIN o \cup {id} |-> IF k = id THEN v ELSE o[k]]

Range(q) == {q[j] : j \in 1..Len(q)}

Handles(o, K) == {o[k].window_handle_value : k \in K}

AttachedIds == {m \in HMonitors : attached[m] # 0}

RECURSIVE Ascending(_)
Ascending(S) ==
    IF S = {} THEN <<>>
    ELSE LET m == CHOOSE x \in S : \A y \in S : x <= y
         IN  <<m>> \o Ascending(S \ {m})

\* enum_proc: one callback of EnumDisplayMonitors; a monitor whose
\* GetMonitorInfoW fails is skipped and the enumeration continues.
\* monitor_rect is the MonitorRect built for the monitor; the manager's
\* specifications name it by the number attached[monitor_handle]
enum_proc(monitor_data, monitor_handle, info_ok, monitor_rect) ==
    IF ~info_ok THEN monitor_data
    ELSE Append(monitor_data, <<monitor_handle, monitor_rect>>)

\* what enum_proc returns to EnumDisplayMonitors: BOOL(1), continue, on both
\* paths; long_parameter is the address of the local `monitors`, never null
enum_proc_returns(info_ok) == IF ~info_ok THEN 1 ELSE 1

\* MonitorRect with width = rect.right, the left edge not subtracted
MonitorRect_width_is_right(rcMonitor, dpi_ok, horizontal_dpi) ==
    [x |-> rcMonitor.left, y |-> rcMonitor.top,
     width |-> rcMonitor.right,
     height |-> rcMonitor.bottom - rcMonitor.top,
     dpi |-> IF dpi_ok THEN horizontal_dpi ELSE DefaultDpi]

\* the MonitorRect enum_proc builds from monitor_info.rcMonitor and from what
\* GetDpiForMonitor left in horizontal_dpi; Err resets it to 96.  The
\* subtractions are i32; the coordinates of a monitor do not overflow them
MonitorRect(rcMonitor, dpi_ok, horizontal_dpi) ==
    [x |-> rcMonitor.left, y |-> rcMonitor.top,
     width |-> rcMonitor.right - rcMonitor.left,
     height |-> rcMonitor.bottom - rcMonitor.top,
     dpi |-> IF dpi_ok THEN horizontal_dpi ELSE DefaultDpi]

RECURSIVE EnumDisplayMonitors(_, _, _)
EnumDisplayMonitors(order, info_ok_set, monitor_data) ==
    IF order = <<>> THEN monitor_data
    ELSE EnumDisplayMonitors(Tail(order), info_ok_set,
             enum_proc(monitor_data, Head(order), Head(order) \in info_ok_set,
                       attached[Head(order)]))

\* enumerate_monitors that returns what was collected whatever the result of
\* EnumDisplayMonitors is
enumerate_monitors_ignores_result(result_ok, info_ok_set) ==
    [ok |-> TRUE,
     monitors |-> EnumDisplayMonitors(Ascending(AttachedIds), info_ok_set, <<>>)]

\* enumerate_monitors: the monitors are visited in handle order; Err when
\* EnumDisplayMonitors returned BOOL(0), else Ok(monitors)
enumerate_monitors(result_ok, info_ok_set) ==
    IF ~result_ok THEN [ok |-> FALSE, monitors |-> <<>>]
    ELSE [ok |-> TRUE,
          monitors |-> EnumDisplayMonitors(Ascending(AttachedIds), info_ok_set, <<>>)]

Ids(monitors) == {monitors[j][1] : j \in 1..Len(monitors)}

RectsOf(monitors) == [j \in 1..Len(monitors) |-> monitors[j][2]]

\* the rect the enumeration `monitors` has for the monitor id
RectOf(monitors, id) ==
    monitors[CHOOSE j \in 1..Len(monitors) : monitors[j][1] = id][2]

\* OverlayManager::monitors: Ok(self.monitor_rects.clone())
monitors_call == monitor_rects

\* a WM_DESTROY arm that leaves the user data in place
wm_destroy_keeps_userdata(win) == win

\* WM_DESTROY arm of handle_overlay_window_message
wm_destroy(win) == [win EXCEPT !.userdata = NullPtr]

\* DestroyWindow: on success the window procedure receives WM_DESTROY and the
\* window is gone; on failure (also: the handle is no longer a window) nothing
DestroyWindow(win, ok) ==
    IF win.state = "alive" /\ ok
    THEN [wm_destroy(win) EXCEPT !.state = "dead"]
    ELSE win

\* SetWindowLongPtrW(hwnd, GWLP_USERDATA, value)
SetWindowLongPtrW(win, value) ==
    IF win.state = "alive" THEN [win EXCEPT !.userdata = value] ELSE win

\* destroy_overlay without line 208: the user data is left in place
destroy_overlay_keeps_userdata(win, destroy_ok) == DestroyWindow(win, destroy_ok)

\* WinOverlayManager::destroy_overlay
destroy_overlay(win, destroy_ok) ==
    DestroyWindow(SetWindowLongPtrW(win, NullPtr), destroy_ok)

\* `for (id, overlay) in ... { destroy_overlay(id, overlay) }` over the
\* entries `ids` of the map o; DestroyWindow fails on the handles of `failed`.
\* The result is the window table and the number of DestroyWindow calls made
\* on each handle.
RECURSIVE DestroyEach(_, _, _, _, _)
DestroyEach(ids, o, failed, w, attempts) ==
    IF ids = <<>> THEN [windows |-> w, attempts |-> attempts]
    ELSE LET h == o[Head(ids)].window_handle_value
         IN  DestroyEach(Tail(ids), o, failed,
                 [w EXCEPT ![h] = destroy_overlay(@, h \notin failed)],
                 [attempts EXCEPT ![h] = @ + 1])

\* DestroyWindow can fail on any handle and fails on one that is no window
DestroyFailures(H) == {F \in SUBSET H : \A h \in H : ~IsAlive(windows, h) => h \in F}

\* DefWindowProcW's answer
DefWindowProcW(msg) == IF msg = "WM_NCHITTEST" THEN 1 ELSE 0

\* overlay_wnd_proc of lib.rs: the answer of run_app's window class
overlay_wnd_proc(msg) ==
    IF msg = "WM_NCHITTEST" THEN HTTRANSPARENT ELSE DefWindowProcW(msg)

\* overlay_wnd_proc hands msg to DefWindowProcW, which closes on WM_CLOSE
overlay_wnd_proc_closes(msg) == msg # "WM_NCHITTEST" /\ msg = "WM_CLOSE"

\* the match without its WM_NCHITTEST arm
message_arm_no_hittest(msg) ==
    IF msg \in EnvMessages THEN "environment"
    ELSE IF msg = "WM_DESTROY" THEN "destroy"
    ELSE "default"

\* the match of handle_overlay_window_message: which arm takes the message
message_arm(msg) ==
    IF msg = "WM_NCHITTEST" THEN "hittest"
    ELSE IF msg \in EnvMessages THEN "environment"
    ELSE IF msg = "WM_DESTROY" THEN "destroy"
    ELSE "default"

\* an environment arm without WM_SETTINGCHANGE in its pattern
environment_arm_no_settingchange(win, msg) ==
    IF /\ msg \in {"WM_DEVICECHANGE", "WM_DISPLAYCHANGE", "WM_DPICHANGED"}
       /\ win.userdata # NullPtr
    THEN 1 ELSE 0

\* the environment arm of handle_overlay_window_message, lines 241-260: how
\* many times the message msg makes the procedure of window win call
\* handle_environment_change
environment_arm(win, msg) ==
    IF message_arm(msg) = "environment" /\ win.userdata # NullPtr THEN 1 ELSE 0

\* `current.rect = *rect` after update_overlay_window returned.  `current`
\* was borrowed from the map before the call; when a nested refresh removed
\* the entry meanwhile the write goes through a dangling reference: it is
\* lost, or lands in the slot another entry took over.
WriteRect(o, id, rect) ==
    IF id \in DOMAIN o THEN {[o EXCEPT ![id].rect = rect]}
    ELSE {o} \cup {[o EXCEPT ![k].rect = rect] : k \in DOMAIN o}

\* `&mut *manager_ptr` of line 244 is a reference to the manager: the value is
\* alive and at the address the user data holds
PointsToManager(userdata) == manager.state = "alive" /\ userdata = manager.addr

\* ------------------------------------------------ WinOverlayManager calls
\* the call that enumerates `monitors` now is not made from inside another
\* call and comes after a refresh_overlays that returned Ok and had enumerated
\* the same monitors with the same rects
Repeats(monitors) ==
    /\ observe = "repeat"
    /\ stack = <<>>
    /\ prev.ok
    /\ prev.ids = Ids(monitors)
    /\ monitor_rects = RectsOf(monitors)

Frame(via, monitors, enum_ok) ==
    [pc |-> "loop", via |-> via, monitors |-> monitors, i |-> 1, hwnd |-> 0,
     from |-> 0, sent |-> FALSE, enum_ok |-> enum_ok,
     before |-> IF Repeats(monitors)
                THEN [overlays |-> overlays, monitor_rects |-> monitor_rects,
                      windows |-> windows]
                ELSE Snap([overlays |-> overlays, live |-> Live]),
     repeats |-> Repeats(monitors)]

\* handle_environment_change, lines 135-138: what it logs for the result of
\* its refresh_overlays; it returns nothing to the window procedure
handle_environment_change(result) ==
    IF result = "Ok" THEN "log_current_layout" ELSE "warn"

\* refresh_overlays returns `result` to its caller: the application, or
\* handle_environment_change, which logs and returns to the window procedure
Finish(f, result, rest) ==
    /\ stack' = rest
    /\ ret' = Ret([op |-> "refresh_overlays", via |-> f.via, result |-> result,
                   desired |-> Ids(f.monitors), tracked |-> {},
                   attempts |-> ZeroCalls, enum_ok |-> f.enum_ok,
                   logged |-> IF f.via = "wndproc"
                              THEN handle_environment_change(result) ELSE "none",
                   monitors |-> Snap(f.monitors), before |-> f.before,
                   repeats |-> f.repeats])

\* refresh_overlays, lines 63-74: the enumeration and the loop that destroys
\* the overlays of monitors that are gone
refresh_overlays_enter(via, base) ==
    \E result_ok \in BOOLEAN, info_ok_set \in SUBSET AttachedIds :
      LET enumerated == enumerate_monitors(result_ok, info_ok_set)
          monitors == enumerated.monitors
          desired == Ids(monitors)
          gone == DOMAIN overlays \ desired
      IN  IF ~enumerated.ok
          THEN /\ Finish(Frame(via, monitors, result_ok), "Err", base)
               /\ UNCHANGED <<windows, overlays, monitor_rects>>
          ELSE \E failed \in DestroyFailures(Handles(overlays, gone)) :
                 /\ windows' = DestroyEach(Ascending(gone), overlays, failed,
                                           windows, ZeroCalls).windows
                 /\ overlays' = Restrict(overlays, DOMAIN overlays \cap desired)
                 /\ stack' = <<Frame(via, monitors, result_ok)>> \o base
                 /\ ret' = NoRet
                 /\ UNCHANGED monitor_rects

NextIteration(f) ==
    <<[f EXCEPT !.pc = "loop", !.i = f.i + 1, !.hwnd = 0, !.from = 0,
                !.sent = FALSE]>>
        \o Tail(stack)

\* refresh_overlays, lines 75-117: one turn of the loop over the enumerated
\* monitors up to its SetWindowPos call, or the end of the function
refresh_overlays_loop ==
    /\ stack # <<>>
    /\ Head(stack).pc = "loop"
    /\ wp' = NoWp
    /\ LET f == Head(stack)
           id == f.monitors[f.i][1]
           rect == f.monitors[f.i][2]
       IN  IF f.i > Len(f.monitors)
           THEN /\ monitor_rects' = RectsOf(f.monitors)
                /\ Finish(f, "Ok", Tail(stack))
                /\ UNCHANGED <<windows, overlays>>
           ELSE IF id \in DOMAIN overlays
           THEN IF IsAlive(windows, overlays[id].window_handle_value)
                THEN /\ stack' = <<[f EXCEPT !.pc = "in_update",
                                      !.hwnd = overlays[id].window_handle_value,
                                      !.from = overlays[id].rect]>>
                                   \o Tail(stack)
                     /\ ret' = NoRet
                     /\ UNCHANGED <<windows, overlays, monitor_rects>>
                ELSE /\ Finish(f, "Err", Tail(stack))
                     /\ UNCHANGED <<windows, overlays, monitor_rects>>
           ELSE \/ /\ Finish(f, "Err", Tail(stack))
                   /\ UNCHANGED <<windows, overlays, monitor_rects>>
                \/ /\ FreeHandles # {}
                   /\ windows' = [windows EXCEPT ![NewHandle] =
                          SetWindowLongPtrW([state |-> "alive", userdata |-> NullPtr],
                                            manager.addr)]
                   /\ stack' = <<[f EXCEPT !.pc = "in_create", !.hwnd = NewHandle]>>
                                 \o Tail(stack)
                   /\ ret' = NoRet
                   /\ UNCHANGED <<overlays, monitor_rects>>

\* inside SetWindowPos the OS sends WM_DPICHANGED to the window being placed
\* when the call moves it to another monitor geometry (the rect carries the
\* dpi): an overlay that is moved away from the rect it was last placed at.
\* handle_overlay_window_message runs inside the call.
SetWindowPos_sends ==
    /\ stack # <<>>
    /\ Len(stack) < MaxDepth
    /\ Head(stack).pc = "in_update"
    /\ ~Head(stack).sent
    /\ IsAlive(windows, Head(stack).hwnd)
    /\ Head(stack).from # Head(stack).monitors[Head(stack).i][2]
    /\ LET f == Head(stack)
           base == <<[f EXCEPT !.sent = TRUE]>> \o Tail(stack)
           called == environment_arm(windows[f.hwnd], "WM_DPICHANGED") = 1
       IN  /\ called => PointsToManager(windows[f.hwnd].userdata)
           /\ wp' = Wp([proc |-> "handle_overlay_window_message",
                         msg |-> "WM_DPICHANGED",
                         userdata |-> windows[f.hwnd].userdata,
                         lresult |-> DefWindowProcW("WM_DPICHANGED"),
                         calls |-> IF called THEN 1 ELSE 0])
           /\ IF called
              THEN refresh_overlays_enter("wndproc", base)
              ELSE /\ stack' = base
                   /\ ret' = NoRet
                   /\ UNCHANGED <<windows, overlays, monitor_rects>>

\* SetWindowPos returns to update_overlay_window; the rest of the loop turn
SetWindowPos_returns ==
    /\ stack # <<>>
    /\ Head(stack).pc \in {"in_update", "in_create"}
    /\ wp' = NoWp
    /\ LET f == Head(stack)
           id == f.monitors[f.i][1]
           rect == f.monitors[f.i][2]
       IN  \/ /\ Finish(f, "Err", Tail(stack))
              /\ UNCHANGED <<windows, overlays, monitor_rects>>
           \/ /\ f.pc = "in_update"
              /\ overlays' \in WriteRect(overlays, id, rect)
              /\ stack' = NextIteration(f)
              /\ ret' = NoRet
              /\ UNCHANGED <<windows, monitor_rects>>
           \/ /\ f.pc = "in_create"
              /\ \/ /\ Finish(f, "Err", Tail(stack))
                    /\ UNCHANGED <<windows, overlays, monitor_rects>>
                 \/ /\ overlays' = Put(overlays, id,
                           [window_handle_value |-> f.hwnd, rect |-> rect])
                    /\ stack' = NextIteration(f)
                    /\ ret' = NoRet
                    /\ UNCHANGED <<windows, monitor_rects>>

\* init, create_overlays and refresh_overlays called by the application
refresh_overlays ==
    /\ stack = <<>>
    /\ wp' = NoWp
    /\ refresh_overlays_enter("app", <<>>)

\* teardown_overlays, and destroy_overlays of the trait
teardown_overlays ==
    /\ stack = <<>>
    /\ wp' = NoWp
    /\ LET H == Handles(overlays, DOMAIN overlays)
       IN  \E failed \in DestroyFailures(H) :
             LET done == DestroyEach(Ascending(DOMAIN overlays), overlays, failed,
                                     windows, ZeroCalls)
             IN  /\ windows' = done.windows
                 /\ overlays' = Restrict(overlays, {})
                 /\ monitor_rects' = <<>>
                 /\ ret' = Ret([op |-> "teardown_overlays", via |-> "app",
                                result |-> "Ok", desired |-> {}, tracked |-> H,
                                attempts |-> done.attempts, enum_ok |-> TRUE,
                                logged |-> "none", monitors |-> <<>>,
                                before |-> <<>>, repeats |-> FALSE])
                 /\ UNCHANGED stack

\* the message loop of the manager's thread dispatches msg to window h
handle_overlay_window_message(h, msg) ==
    /\ stack = <<>>
    /\ IsAlive(windows, h)
    /\ LET arm == message_arm(msg)
           called == environment_arm(windows[h], msg) = 1
       IN  /\ called => PointsToManager(windows[h].userdata)
           /\ wp' = Wp([proc |-> "handle_overlay_window_message",
                         msg |-> msg, userdata |-> windows[h].userdata,
                         lresult |-> IF arm = "hittest" THEN HTTRANSPARENT
                                     ELSE DefWindowProcW(msg),
                         calls |-> IF called THEN 1 ELSE 0])
           /\ IF called
              THEN refresh_overlays_enter("wndproc", <<>>)
              ELSE /\ windows' = IF arm = "default" /\ msg = "WM_CLOSE"
                                 THEN [windows EXCEPT ![h] = DestroyWindow(@, TRUE)]
                                 ELSE windows
                   /\ ret' = NoRet
                   /\ UNCHANGED <<overlays, monitor_rects, stack>>

\* ---------------------------------------------------- run_app of lib.rs
Msg(target, what, button) == [target |-> target, what |-> what, button |-> button]

\* MSG::default()
NoMsg == Msg("none", "none", "None")

WM_QUIT == Msg("thread", "WM_QUIT", "None")

\* what the tray icon, its menu and the OS post to the main thread
TrayIconEvents ==
    {Msg("tray_icon", k, b) : k \in {"Click", "DoubleClick"}, b \in {"Left", "Right"}}
        \cup {Msg("tray_icon", "Move", "None")}

MenuEvents == {Msg("menu", "settings_id", "None"), Msg("menu", "exit_id", "None")}

OverlayMessages == {Msg("overlay", "WM_NCHITTEST", "None"), Msg("overlay", "WM_CLOSE", "None")}

Posted == TrayIconEvents \cup MenuEvents \cup OverlayMessages

NoEvent == [event |-> NoMsg, send_calls |-> 0, enqueued |-> 0, receiver |-> FALSE]

\* the receiver of the command channel exists: it is dropped with the
\* creator closure when eframe fails to start
ReceiverExists == ui_pc # "panicked"

\* the handler without the `if button == MouseButton::Left` guard
tray_icon_handler_any_button(event) ==
    IF event.what = "Click" THEN 1 ELSE 0

\* the closure of handle_tray_icon_events: how many times it calls show_ui
tray_icon_handler(event) ==
    IF event.what = "Click" /\ event.button = "Left" THEN 1 ELSE 0

\* the closure of handle_tray_menu_events whose Exit arm does nothing
menu_handler_no_quit(event) ==
    IF event.what = "settings_id" THEN [show_ui |-> 1, PostQuitMessage |-> FALSE]
    ELSE [show_ui |-> 0, PostQuitMessage |-> FALSE]

\* the closure of handle_tray_menu_events: its calls
menu_handler(event) ==
    IF event.what = "settings_id" THEN [show_ui |-> 1, PostQuitMessage |-> FALSE]
    ELSE IF event.what = "exit_id" THEN [show_ui |-> 0, PostQuitMessage |-> TRUE]
    ELSE [show_ui |-> 0, PostQuitMessage |-> FALSE]

\* show_ui called n times: each call locks the cell and calls send once; the
\* command enters the channel when the receiver exists, else send returns Err
\* and the handler logs it.  (The lock cannot fail: no holder of it panics.)
show_ui(n) ==
    IF n > 0 /\ ReceiverExists
    THEN /\ command_channel' = Append(command_channel, sent + 1)
         /\ sent' = sent + 1
    ELSE UNCHANGED <<command_channel, sent>>

\* run_app, lines 22-36: everything before the message loop
run_app_start ==
    /\ app_pc = "start"
    /\ last' = NoEvent
    /\ UNCHANGED <<queue, posts, quit_flag, message, cleanup, command_channel, sent>>
    /\ \/ \* GetModuleHandleW(None)? fails
          /\ app_pc' = "returned_err"
          /\ UNCHANGED <<tray, overlay_hwnd, ui_pc>>
       \/ /\ ui_pc' = "spawned"
          /\ \/ \* create_overlay_window: CreateWindowExW(...).expect(...)
                /\ app_pc' = "panicked"
                /\ UNCHANGED <<tray, overlay_hwnd>>
             \/ /\ overlay_hwnd' = "alive"
                /\ \/ \* create_tray_icon()? fails
                      /\ app_pc' = "returned_err"
                      /\ UNCHANGED tray
                   \/ /\ tray' = "alive"
                      /\ app_pc' = "peek"

\* PeekMessageW(&mut message, NULL, 0, 0, PM_REMOVE) and the test for WM_QUIT:
\* posted messages come first, WM_QUIT when none is left and the flag is set
PeekMessageW ==
    /\ app_pc = "peek"
    /\ last' = NoEvent
    /\ UNCHANGED <<posts, tray, overlay_hwnd, cleanup, cvars>>
    /\ IF queue # <<>>
       THEN /\ message' = Head(queue)
            /\ queue' = Tail(queue)
            /\ app_pc' = "dispatch"
            /\ UNCHANGED quit_flag
       ELSE IF quit_flag
       THEN /\ message' = WM_QUIT
            /\ quit_flag' = FALSE
            /\ app_pc' = "cleanup"
            /\ UNCHANGED queue
       ELSE /\ app_pc' = "wait"
            /\ UNCHANGED <<message, queue, quit_flag>>

\* TranslateMessage and DispatchMessageW: the window procedure of the target
\* runs, and with it the tray handlers
DispatchMessageW ==
    /\ app_pc = "dispatch"
    /\ app_pc' = "peek"
    /\ UNCHANGED <<queue, posts, message, tray, cleanup, ui_pc>>
    /\ LET calls == IF message.target = "tray_icon" THEN tray_icon_handler(message)
                    ELSE IF message.target = "menu" THEN menu_handler(message).show_ui
                    ELSE 0
           quits == message.target = "menu" /\ menu_handler(message).PostQuitMessage
       IN  /\ show_ui(calls)
           /\ quit_flag' = (quit_flag \/ quits)
           /\ overlay_hwnd' =
                  IF /\ message.target = "overlay"
                     /\ overlay_hwnd = "alive"
                     /\ overlay_wnd_proc_closes(message.what)
                  THEN "destroyed" ELSE overlay_hwnd
           /\ last' = [event |-> message, send_calls |-> calls,
                       enqueued |-> Len(command_channel') - Len(command_channel),
                       receiver |-> ReceiverExists]

\* WaitMessage returns when a message has arrived, or at once when it fails:
\* its result is ignored
WaitMessage ==
    /\ app_pc = "wait"
    /\ app_pc' = "peek"
    /\ last' = NoEvent
    /\ UNCHANGED <<queue, posts, quit_flag, message, tray, overlay_hwnd, cleanup, cvars>>

\* drop(tray), line 50
drop_tray ==
    /\ app_pc = "cleanup"
    /\ tray' = "dropped"
    /\ cleanup' = Append(cleanup, "drop(tray)")
    /\ app_pc' = "destroy"
    /\ last' = NoEvent
    /\ UNCHANGED <<queue, posts, quit_flag, message, overlay_hwnd, cvars>>

\* let _ = DestroyWindow(overlay_hwnd), line 51
DestroyWindow_overlay_hwnd ==
    /\ app_pc = "destroy"
    /\ \E ok \in BOOLEAN :
         overlay_hwnd' = IF overlay_hwnd = "alive" /\ ok THEN "destroyed" ELSE overlay_hwnd
    /\ cleanup' = Append(cleanup, "DestroyWindow(overlay_hwnd)")
    /\ app_pc' = "return"
    /\ last' = NoEvent
    /\ UNCHANGED <<queue, posts, quit_flag, message, tray, cvars>>

\* Ok(()), line 53
run_app_returns ==
    /\ app_pc = "return"
    /\ cleanup' = Append(cleanup, "Ok")
    /\ app_pc' = "returned_ok"
    /\ last' = NoEvent
    /\ UNCHANGED <<queue, posts, quit_flag, message, tray, overlay_hwnd, cvars>>

\* the user acts on the tray icon or its menu, or the OS has a message for
\* the overlay window: a message is posted to the main thread
PostMessage ==
    /\ app_pc \in {"peek", "dispatch", "wait"}
    /\ posts < MaxPosts
    /\ Len(queue) < MaxQueue
    /\ \E m \in Posted :
         /\ m.target = "overlay" => overlay_hwnd = "alive"
         /\ queue' = Append(queue, m)
    /\ posts' = posts + 1
    /\ last' = NoEvent
    /\ UNCHANGED <<app_pc, quit_flag, message, tray, overlay_hwnd, cleanup, cvars>>

\* ------------------------------------------- spawn_ui_thread of the UI crate
\* command_receiver.recv() takes the newest command instead of the oldest
recv_newest(channel) ==
    [incoming |-> channel[Len(channel)], rest |-> SubSeq(channel, 1, Len(channel) - 1)]

\* command_receiver.recv() on a channel that holds a command
recv(channel) == [incoming |-> Head(channel), rest |-> Tail(channel)]

\* update without the CancelClose of line 99
close_commands_no_cancel == <<"Visible(false)">>

\* the viewport commands update sends when it observes close_requested
close_commands == <<"Visible(false)", "CancelClose">>

\* the viewport commands the forwarder sends for UiCommand::Show
show_commands == <<"Visible(true)", "Focus">>

\* the UI thread: eframe::run_native creates the window and runs the creator
\* callback, which spawns the forwarder thread; or it fails, the closure is
\* dropped with the receiver in it and expect panics
run_native ==
    /\ ui_pc = "spawned"
    /\ UNCHANGED <<command_channel, sent>>
    /\ \/ /\ ui_pc' = "panicked"
          /\ UNCHANGED uvars
       \/ /\ ui_pc' = "running"
          /\ visible' = TRUE
          /\ repaint' = TRUE
          /\ forwarder' = "recv"
          /\ hwnd_from_context_value' \in {"Some", "None"}
          /\ UNCHANGED <<frame_pc, close_requested, frame_close, viewport_cmds,
                         output, closing, handled>>

\* one turn of the forwarder's `while let Ok(incoming) = recv()` loop
forwarder_loop ==
    /\ forwarder = "recv"
    /\ command_channel # <<>>
    /\ LET got == recv(command_channel)
       IN  /\ command_channel' = got.rest
           /\ handled' = Append(handled, got.incoming)
    /\ visible' = IF hwnd_from_context_value = "Some" /\ ui_pc = "running"
                  THEN TRUE ELSE visible
    /\ viewport_cmds' = viewport_cmds \o show_commands
    /\ repaint' = TRUE
    /\ UNCHANGED <<ui_pc, sent, frame_pc, close_requested, frame_close, output,
                   closing, forwarder, hwnd_from_context_value>>

\* SerpentinesApp::update, called by eframe for a frame.  The pending channel
\* it drains has no sender that sends, so the drain finds nothing.
update ==
    /\ ui_pc = "running"
    /\ frame_pc = "idle"
    /\ repaint \/ close_requested
    /\ frame_close' = close_requested
    /\ close_requested' = FALSE
    /\ IF close_requested
       THEN /\ viewport_cmds' = viewport_cmds \o close_commands
            /\ repaint' = TRUE
       ELSE /\ repaint' = FALSE
            /\ UNCHANGED viewport_cmds
    /\ frame_pc' = "end_frame"
    /\ UNCHANGED <<cvars, output, closing, visible, forwarder,
                   hwnd_from_context_value, handled>>

\* eframe ends the frame: it takes the viewport commands sent so far and
\* closes the root viewport when close was requested and not cancelled
end_frame ==
    /\ ui_pc = "running"
    /\ frame_pc = "end_frame"
    /\ output' = viewport_cmds
    /\ viewport_cmds' = <<>>
    /\ closing' = (frame_close /\ "CancelClose" \notin Range(viewport_cmds))
    /\ frame_pc' = "commands"
    /\ UNCHANGED <<cvars, close_requested, frame_close, visible, repaint, forwarder,
                   hwnd_from_context_value, handled>>

\* eframe applies the frame's viewport commands one after the other, then
\* closes the window and leaves run_native, or waits for the next frame
process_viewport_commands ==
    /\ ui_pc = "running"
    /\ frame_pc = "commands"
    /\ UNCHANGED <<command_channel, sent, close_requested, frame_close, viewport_cmds,
                   closing, repaint, forwarder, hwnd_from_context_value, handled>>
    /\ IF output # <<>>
       THEN /\ output' = Tail(output)
            /\ visible' = IF Head(output) = "Visible(true)" THEN TRUE
                          ELSE IF Head(output) = "Visible(false)" THEN FALSE
                          ELSE visible
            /\ UNCHANGED <<ui_pc, frame_pc>>
       ELSE /\ IF closing
               THEN /\ ui_pc' = "closed"
                    /\ visible' = FALSE
               ELSE UNCHANGED <<ui_pc, visible>>
            /\ frame_pc' = "idle"
            /\ UNCHANGED output

\* the user closes the settings window
OsCloseRequest ==
    /\ ui_pc = "running"
    /\ visible
    /\ ~close_requested
    /\ close_requested' = TRUE
    /\ UNCHANGED <<cvars, frame_pc, frame_close, viewport_cmds, output, closing,
                   visible, repaint, forwarder, hwnd_from_context_value, handled>>

\* a holder of the command_sender sends UiCommand::Show, as show_ui does
send_Show ==
    /\ sent < MaxShows
    /\ ReceiverExists
    /\ show_ui(1)
    /\ UNCHANGED <<ui_pc, uvars>>

UiFrame == update \/ end_frame \/ process_viewport_commands

\* ------------------------------------------------------------ environment
\* The monitors change.  Only the enumeration reads them, so a change is
\* taken where the next enumeration can see it: between two calls, and
\* inside a SetWindowPos call before it sends.
MonitorChange ==
    /\ IF stack = <<>> THEN TRUE
       ELSE Head(stack).pc = "in_update" /\ ~Head(stack).sent
    /\ \E a \in [HMonitors -> 0..MaxRect] : a # attached /\ attached' = a
    /\ ret' = NoRet
    /\ wp' = NoWp
    /\ UNCHANGED <<windows, overlays, monitor_rects, stack>>

\* -------------------------------------------------- what the OS enumerates
\* monitor_info.rcMonitor of a monitor
RECTs ==
    {[left |-> l, top |-> t, right |-> l + w, bottom |-> t + h] :
        l \in {-MaxOrigin, 0}, t \in {0, MaxOrigin}, w \in 1..MaxExtent, h \in 1..MaxExtent}

\* one monitor as the OS answers for it: whether GetMonitorInfoW succeeds and
\* with which rcMonitor, whether GetDpiForMonitor succeeds and what it leaves
\* in horizontal_dpi and vertical_dpi
Displays ==
    {[handle |-> m, info_ok |-> io, rcMonitor |-> rc, dpi_ok |-> dk,
      horizontal_dpi |-> hd, vertical_dpi |-> vd] :
        m \in HMonitors, io \in BOOLEAN, rc \in RECTs, dk \in BOOLEAN,
        hd \in {DefaultDpi, 144}, vd \in {DefaultDpi, 120}}

\* the answers that differ in what enum_proc reads: rcMonitor and the DPIs
\* are read only after GetMonitorInfoW succeeded, vertical_dpi is never read
Answers ==
    {d \in Displays :
        /\ ~d.info_ok => /\ d.rcMonitor = [left |-> 0, top |-> 0, right |-> 1, bottom |-> 1]
                         /\ d.dpi_ok /\ d.horizontal_dpi = DefaultDpi
        /\ ~d.dpi_ok => d.vertical_dpi = DefaultDpi
        /\ ~d.info_ok => d.vertical_dpi = DefaultDpi}

\* the monitors in the order EnumDisplayMonitors visits them, each once
AnyDisplays ==
    {q \in UNION {[1..n -> Answers] : n \in 0..MaxMonitors} :
        \A j, k \in 1..Len(q) : q[j].handle = q[k].handle => j = k}

NoDisplays == {<<>>}

NoEnumeration == [pc |-> "idle", i |-> 0, monitors |-> <<>>, result |-> "none"]

\* the state after WinOverlayManager::new, before run_app is entered and
\* with the UI thread in the state ui; the monitors are among `hardware` and
\* obs says what is recorded
Init(obs, ui, hardware, screens) ==
    /\ attached \in hardware
    /\ windows = [h \in Hwnds |-> FreeWindow]
    /\ overlays = Restrict(<<>>, {})
    /\ monitor_rects = <<>>
    /\ stack = <<>>
    /\ ret = NoRet
    /\ wp = NoWp
    /\ observe = obs
    /\ manager = [addr |-> ManagerPtr, state |-> "alive"]
    /\ initialised = FALSE
    /\ owed = FALSE
    /\ env_failed = FALSE
    /\ destroy_called = {}
    /\ prev = NoCall
    /\ app_pc = "start"
    /\ queue = <<>>
    /\ posts = 0
    /\ quit_flag = FALSE
    /\ message = NoMsg
    /\ tray = "none"
    /\ overlay_hwnd = "none"
    /\ cleanup = <<>>
    /\ last = NoEvent
    /\ ui_pc = ui
    /\ command_channel = <<>>
    /\ sent = 0
    /\ frame_pc = "idle"
    /\ close_requested = FALSE
    /\ frame_close = FALSE
    /\ viewport_cmds = <<>>
    /\ output = <<>>
    /\ closing = FALSE
    /\ visible = FALSE
    /\ repaint = FALSE
    /\ forwarder = "absent"
    /\ hwnd_from_context_value = "None"
    /\ handled = <<>>
    /\ displays \in screens
    /\ enumeration = NoEnumeration

AnyMonitors == [HMonitors -> 0..MaxRect]

NoMonitors == {[m \in HMonitors |-> 0]}

\* what a step of the manager leaves alone
ManagerOnly == UNCHANGED <<attached, observe, manager, avars, cvars, uvars, evars>>

NextManager ==
    \/ MonitorChange /\ UNCHANGED <<observe, manager, gvars, avars, cvars, uvars, evars>>
    \/ refresh_overlays /\ ManagerOnly /\ UNCHANGED gvars
    \/ teardown_overlays /\ ManagerOnly /\ UNCHANGED gvars
    \/ refresh_overlays_loop /\ ManagerOnly /\ UNCHANGED gvars
    \/ SetWindowPos_sends /\ ManagerOnly /\ UNCHANGED gvars
    \/ SetWindowPos_returns /\ ManagerOnly /\ UNCHANGED gvars
    \/ /\ \E h \in Hwnds, msg \in Messages : handle_overlay_window_message(h, msg)
       /\ ManagerOnly /\ UNCHANGED gvars

\* the manager and its windows, the returns of its calls recorded
SpecOverlay == Init("ret", "unspawned", AnyMonitors, NoDisplays) /\ [][NextManager]_vars

\* the OS calls overlay_wnd_proc of lib.rs on a window of run_app's class;
\* the procedure has no access to a manager
overlay_wnd_proc_call ==
    /\ stack = <<>>
    /\ \E msg \in Messages :
         wp' = Wp([proc |-> "overlay_wnd_proc", msg |-> msg, userdata |-> NullPtr,
                   lresult |-> overlay_wnd_proc(msg), calls |-> 0])
    /\ ret' = NoRet
    /\ UNCHANGED <<attached, windows, overlays, monitor_rects, stack>>

NextWndProc ==
    \/ NextManager
    \/ overlay_wnd_proc_call /\ UNCHANGED <<observe, manager, gvars, avars, cvars, uvars, evars>>

\* the same, the calls of both window procedures recorded
SpecWndProc == Init("wp", "unspawned", AnyMonitors, NoDisplays) /\ [][NextWndProc]_vars

\* ------------------------------------------------- the fair message loop
\* a Win32 call failed in this step: a refresh returned Err, DestroyWindow
\* left a window of a removed entry alive, or GetMonitorInfoW made the
\* enumeration skip an attached monitor
Win32Failure ==
    \/ ret'.result = "Err"
    \/ \E h \in Hwnds : /\ IsAlive(windows, h) /\ IsAlive(windows', h)
                        /\ h \in Handles(overlays, DOMAIN overlays)
                        /\ h \notin Handles(overlays', DOMAIN overlays')
    \/ /\ Len(stack') > Len(stack)
       /\ Ids(stack'[1].monitors) # AttachedIds

\* a window was closed from outside the manager in this step
ExternalClose ==
    stack = <<>> /\ stack' = <<>> /\ ret'.op = "none" /\ windows' # windows

SyncGhost ==
    /\ UNCHANGED <<env_failed, destroy_called, prev>>
    /\ initialised' = IF ret'.op = "teardown_overlays" THEN FALSE
                      ELSE \/ initialised
                           \/ /\ ret'.op = "refresh_overlays"
                              /\ ret'.via = "app"
                              /\ ret'.result = "Ok"
    /\ owed' = IF attached' # attached THEN initialised /\ ~owed
               ELSE /\ owed
                    /\ ~Win32Failure
                    /\ ~ExternalClose
                    /\ ret'.op # "teardown_overlays"

\* the OS delivers the broadcast notification of a monitor change
Broadcast ==
    /\ owed
    /\ \E h \in Hwnds : handle_overlay_window_message(h, "WM_DISPLAYCHANGE")
    /\ ManagerOnly
    /\ SyncGhost

\* a call of the manager that has begun runs on
Progress ==
    /\ refresh_overlays_loop \/ SetWindowPos_returns
    /\ ManagerOnly
    /\ SyncGhost

NextSync ==
    \/ MonitorChange /\ UNCHANGED <<observe, manager, avars, cvars, uvars, evars>> /\ SyncGhost
    \/ refresh_overlays /\ ManagerOnly /\ SyncGhost
    \/ teardown_overlays /\ ManagerOnly /\ SyncGhost
    \/ refresh_overlays_loop /\ ManagerOnly /\ SyncGhost
    \/ SetWindowPos_sends /\ ManagerOnly /\ SyncGhost
    \/ SetWindowPos_returns /\ ManagerOnly /\ SyncGhost
    \/ /\ \E h \in Hwnds, msg \in Messages : handle_overlay_window_message(h, msg)
       /\ ManagerOnly /\ SyncGhost

FairSpecSync ==
    /\ Init("ret", "unspawned", AnyMonitors, NoDisplays)
    /\ [][NextSync]_vars
    /\ WF_vars(Broadcast)
    /\ WF_vars(Progress)

\* ------------------------------------------------- claims on the manager
\* C1: when refresh_overlays returns Ok, the keys of the overlays map are
\* exactly the monitor ids its enumeration returned.
C1_KeysAreEnumerated ==
    (ret.op = "refresh_overlays" /\ ret.result = "Ok")
        => DOMAIN overlays = ret.desired

\* C2: between the calls of the manager every overlay window that was
\* created and is not destroyed is recorded in the overlays map.
C2_NoLeakedWindow ==
    stack = <<>> => \A h \in Live : h \in Handles(overlays, DOMAIN overlays)

\* C3: the window procedure never enters handle_environment_change while a
\* refresh_overlays of the manager is in progress: at most one refresh is
\* active at any time.
C3_NoInterleavedRefresh == Len(stack) <= 1

\* C4: once the monitors changed under an initialised manager, and as long
\* as they do not change again and no Win32 call fails, the overlays map
\* eventually has exactly one entry per attached monitor.
C4_EventuallySynchronized ==
    owed ~> (DOMAIN overlays = AttachedIds \/ ~owed)

\* C5: when teardown_overlays returns it returns Ok, the overlays map is
\* empty, monitors() is empty, and every overlay tracked before the call has
\* its user data cleared and DestroyWindow attempted on it exactly once.
C5_TeardownComplete ==
    ret.op = "teardown_overlays" =>
        /\ ret.result = "Ok"
        /\ DOMAIN overlays = {}
        /\ monitors_call = <<>>
        /\ \A h \in ret.tracked : /\ windows[h].userdata = NullPtr
                                  /\ ret.attempts[h] = 1

\* teardown_overlays returned after two overlays were tracked, and the
\* DestroyWindow of one of them failed
C5_TeardownWitness ==
    /\ ret.op = "teardown_overlays"
    /\ Cardinality(ret.tracked) = 2
    /\ \E h \in ret.tracked : IsAlive(windows, h)

\* C6: both window procedures answer WM_NCHITTEST with HTTRANSPARENT, whether
\* the user data is set or not, make no call into the manager, and leave the
\* manager's state and its windows as they are.
C6_ClickThrough ==
    /\ [](wp.msg = "WM_NCHITTEST" => wp.lresult = HTTRANSPARENT /\ wp.calls = 0)
    /\ [][wp'.msg = "WM_NCHITTEST" =>
             UNCHANGED <<windows, overlays, monitor_rects, stack>>]_vars

\* handle_overlay_window_message answered a hit test on a tracked overlay
\* whose user data points to the manager
C6_ClickThroughWitness ==
    /\ wp.msg = "WM_NCHITTEST"
    /\ wp.proc = "handle_overlay_window_message"
    /\ wp.userdata = ManagerPtr
    /\ DOMAIN overlays # {}

\* ------------------------------------------------ the manager as a value
\* the owner moves the WinOverlayManager value (returns it, boxes it, stores
\* it in a struct): it is at another address now.  No code runs on a move, so
\* the user data of the windows is left as it is.
move_manager ==
    /\ stack = <<>>
    /\ manager.state = "alive"
    /\ manager.addr < ManagerPtr + MaxMoves
    /\ manager' = [manager EXCEPT !.addr = @ + 1]
    /\ ret' = NoRet
    /\ wp' = NoWp
    /\ UNCHANGED <<attached, windows, overlays, monitor_rects, stack, observe>>

\* the owner drops the value.  WinOverlayManager has no Drop: its map and its
\* vector are freed, and as DisplayOverlay holds the handle as an isize no
\* window is destroyed and no user data is cleared.
drop_manager ==
    /\ stack = <<>>
    /\ manager.state = "alive"
    /\ manager' = [manager EXCEPT !.state = "dropped"]
    /\ overlays' = Restrict(overlays, {})
    /\ monitor_rects' = <<>>
    /\ ret' = NoRet
    /\ wp' = NoWp
    /\ UNCHANGED <<attached, windows, stack, observe>>

\* every value the map and the vector of a manager can hold
AnyOverlays ==
    UNION {[K -> [window_handle_value : Hwnds, rect : Rects]] : K \in SUBSET HMonitors}

AnyMonitorRects == UNION {[1..n -> Rects] : n \in 0..MaxMonitors}

\* handle_overlay_window_message, lines 242-257, with user data that is not
\* null and does not point to the manager: `&mut *manager_ptr` is a reference
\* to memory that was moved out of or freed, and handle_environment_change
\* runs on it.  The behaviour is undefined: the map and the vector may hold
\* anything afterwards.
handle_overlay_window_message_dangling(h, msg) ==
    /\ stack = <<>>
    /\ IsAlive(windows, h)
    /\ message_arm(msg) = "environment"
    /\ windows[h].userdata # NullPtr
    /\ ~PointsToManager(windows[h].userdata)
    /\ manager' = [manager EXCEPT !.state = "undefined"]
    /\ overlays' \in AnyOverlays
    /\ monitor_rects' \in AnyMonitorRects
    /\ wp' = Wp([proc |-> "handle_overlay_window_message", msg |-> msg,
                  userdata |-> windows[h].userdata,
                  lresult |-> DefWindowProcW(msg), calls |-> 1])
    /\ ret' = NoRet
    /\ UNCHANGED <<attached, windows, stack, observe>>

\* what a step of the owner or of the OS leaves alone
OwnerOnly == UNCHANGED <<gvars, avars, cvars, uvars, evars>>

\* the calls of the manager need the value; after an undefined call nothing
\* is said about the program any more
NextLifetime ==
    \/ manager.state = "alive" /\ refresh_overlays /\ ManagerOnly /\ UNCHANGED gvars
    \/ manager.state = "alive" /\ teardown_overlays /\ ManagerOnly /\ UNCHANGED gvars
    \/ refresh_overlays_loop /\ ManagerOnly /\ UNCHANGED gvars
    \/ SetWindowPos_returns /\ ManagerOnly /\ UNCHANGED gvars
    \/ /\ manager.state # "undefined"
       /\ \E h \in Hwnds, msg \in Messages : handle_overlay_window_message(h, msg)
       /\ ManagerOnly /\ UNCHANGED gvars
    \/ /\ \E h \in Hwnds, msg \in EnvMessages :
             handle_overlay_window_message_dangling(h, msg)
       /\ OwnerOnly
    \/ move_manager /\ OwnerOnly
    \/ drop_manager /\ OwnerOnly

\* the manager, its owner and the message loop; the monitors stay as they are
SpecLifetime == Init("none", "unspawned", AnyMonitors, NoDisplays) /\ [][NextLifetime]_vars

\* C11: between the calls of the manager every overlay window that is not
\* destroyed has user data 0, or user data that is the address of the live
\* manager which tracks the window in its overlays map.
C11_UserDataPointsToManager ==
    (stack = <<>> /\ manager.state # "undefined") =>
        \A h \in Live :
            \/ windows[h].userdata = NullPtr
            \/ /\ PointsToManager(windows[h].userdata)
               /\ h \in Handles(overlays, DOMAIN overlays)

\* C12: every window handle recorded in the overlays map is the handle of a
\* window that is not destroyed, in every reachable state.
C12_TrackedWindowsAlive ==
    \A id \in DOMAIN overlays : IsAlive(windows, overlays[id].window_handle_value)

\* C14: when the enumeration of the monitors fails, refresh_overlays returns
\* Err in the same step: no window is created or destroyed and the overlays
\* map and monitor_rects are what they were before the call.
C14_FailedEnumerationChangesNothing ==
    [][(ret'.op = "refresh_overlays" /\ ~ret'.enum_ok) =>
          /\ ret'.result = "Err"
          /\ UNCHANGED <<windows, overlays, monitor_rects>>
          /\ Len(stack') = Len(stack)]_vars

\* refresh_overlays returned after its enumeration failed, called with an
\* overlay in the map whose monitor is no longer attached
C14_FailedEnumerationWitness ==
    /\ ret.op = "refresh_overlays"
    /\ ~ret.enum_ok
    /\ \E id \in DOMAIN overlays : id \notin AttachedIds
    /\ Live # {}

\* a failure of handle_environment_change is remembered until a
\* refresh_overlays returns Ok
EnvGhost ==
    /\ UNCHANGED <<initialised, owed, destroy_called, prev>>
    /\ env_failed' = IF ret'.op # "refresh_overlays" THEN env_failed
                      ELSE IF ret'.result = "Ok" THEN FALSE
                      ELSE env_failed \/ ret'.via = "wndproc"

NextEnv ==
    \/ MonitorChange /\ UNCHANGED <<observe, manager, avars, cvars, uvars, evars>> /\ EnvGhost
    \/ refresh_overlays /\ ManagerOnly /\ EnvGhost
    \/ teardown_overlays /\ ManagerOnly /\ EnvGhost
    \/ refresh_overlays_loop /\ ManagerOnly /\ EnvGhost
    \/ SetWindowPos_sends /\ ManagerOnly /\ EnvGhost
    \/ SetWindowPos_returns /\ ManagerOnly /\ EnvGhost
    \/ /\ \E h \in Hwnds, msg \in Messages : handle_overlay_window_message(h, msg)
       /\ ManagerOnly /\ EnvGhost

\* the manager and its windows, the failures of handle_environment_change
\* remembered
SpecEnv == Init("ret", "unspawned", AnyMonitors, NoDisplays) /\ [][NextEnv]_vars

\* C15: a refresh_overlays called by handle_environment_change that fails is
\* answered with a warning only, one that succeeds with the layout log; and
\* after a failed handle_environment_change the next refresh_overlays that
\* returns Ok leaves the keys of the overlays map equal to the monitor ids it
\* enumerated.
C15_EnvironmentChangeRecovers ==
    /\ [](ret.via = "wndproc" =>
             ret.logged = IF ret.result = "Ok" THEN "log_current_layout" ELSE "warn")
    /\ [][(env_failed /\ ret'.op = "refresh_overlays" /\ ret'.result = "Ok") =>
             DOMAIN overlays' = ret'.desired]_vars

\* DestroyWindow was called in this step on the windows whose entries left
\* the overlays map (destroy_overlay) and on the windows that are gone
DestroyGhost ==
    /\ UNCHANGED <<initialised, owed, env_failed, prev>>
    /\ destroy_called' = destroy_called
           \cup (Handles(overlays, DOMAIN overlays) \ Handles(overlays', DOMAIN overlays'))
           \cup {h \in Hwnds : IsAlive(windows, h) /\ ~IsAlive(windows', h)}

NextDestroy ==
    \/ MonitorChange /\ UNCHANGED <<observe, manager, avars, cvars, uvars, evars>> /\ DestroyGhost
    \/ refresh_overlays /\ ManagerOnly /\ DestroyGhost
    \/ teardown_overlays /\ ManagerOnly /\ DestroyGhost
    \/ refresh_overlays_loop /\ ManagerOnly /\ DestroyGhost
    \/ SetWindowPos_sends /\ ManagerOnly /\ DestroyGhost
    \/ SetWindowPos_returns /\ ManagerOnly /\ DestroyGhost
    \/ /\ \E h \in Hwnds, msg \in Messages : handle_overlay_window_message(h, msg)
       /\ ManagerOnly /\ DestroyGhost

\* the manager and its windows, the windows under destruction remembered
SpecDestroy == Init("none", "unspawned", AnyMonitors, NoDisplays) /\ [][NextDestroy]_vars

\* C16: a window that was handed to DestroyWindow, by destroy_overlay or from
\* outside the manager, has user data 0 from its WM_DESTROY on and also when
\* DestroyWindow failed, so that none of the four environment messages
\* delivered to it makes its procedure call handle_environment_change.
C16_NoCallFromDestroyedWindow ==
    \A h \in destroy_called :
        /\ windows[h].userdata = NullPtr
        /\ \A msg \in EnvMessages : environment_arm(windows[h], msg) = 0

\* one window is alive after destroy_overlay's DestroyWindow failed on it, and
\* another was destroyed from outside while the manager tracks it
C16_DestroyedWitness ==
    /\ \E h \in destroy_called : IsAlive(windows, h)
    /\ \E id \in DOMAIN overlays :
          /\ ~IsAlive(windows, overlays[id].window_handle_value)
          /\ overlays[id].window_handle_value \in destroy_called

\* C17: handle_overlay_window_message calls handle_environment_change exactly
\* once for each of the four environment messages delivered to a window whose
\* user data is not 0, and answers with DefWindowProcW; for a window whose
\* user data is 0, and for every other message, it makes no call into the
\* manager: no refresh begins and the map and monitor_rects stay as they are.
C17_EnvironmentMessagesCallOnce ==
    /\ [](wp.proc = "handle_overlay_window_message" =>
             /\ wp.calls = IF wp.msg \in EnvMessages /\ wp.userdata # NullPtr
                           THEN 1 ELSE 0
             /\ wp.msg \in EnvMessages => wp.lresult = DefWindowProcW(wp.msg))
    /\ [][wp'.proc = "handle_overlay_window_message" =>
             IF wp'.calls = 0
             THEN /\ UNCHANGED <<overlays, monitor_rects>>
                  /\ Len(stack') = Len(stack)
             ELSE Len(stack') \in {Len(stack), Len(stack) + 1}]_vars

\* WM_DEVICECHANGE was delivered to a window that holds the manager pointer
\* and a refresh has begun, while another window has user data 0
C17_EnvironmentMessageWitness ==
    /\ wp.proc = "handle_overlay_window_message"
    /\ wp.msg = "WM_DEVICECHANGE"
    /\ wp.calls = 1
    /\ stack # <<>>
    /\ \E h \in Live : windows[h].userdata = NullPtr

\* the manager and its windows, every refresh_overlays recorded with the
\* state it began in
SpecCalls == Init("calls", "unspawned", AnyMonitors, NoDisplays) /\ [][NextManager]_vars

\* C18: when refresh_overlays returns, every monitor that had an entry when
\* the call began, was enumerated by it and is still attached has its entry
\* with the same window handle, the window not destroyed, and on Ok with the
\* enumerated rect; the windows destroyed during the call are those of entries
\* whose monitor was not enumerated, and an entry has a new window only when
\* the monitor was enumerated and had no entry.
C18_RefreshKeepsPresentOverlays ==
    ret.op = "refresh_overlays" =>
        LET b == ret.before.overlays
            old == Handles(b, DOMAIN b)
        IN  /\ \A id \in DOMAIN b \cap ret.desired \cap AttachedIds :
                  /\ id \in DOMAIN overlays
                  /\ overlays[id].window_handle_value = b[id].window_handle_value
                  /\ b[id].window_handle_value \in ret.before.live
                        => IsAlive(windows, b[id].window_handle_value)
                  /\ ret.result = "Ok" => overlays[id].rect = RectOf(ret.monitors, id)
            /\ \A h \in ret.before.live :
                  ~IsAlive(windows, h) => h \in Handles(b, DOMAIN b \ ret.desired)
            /\ \A id \in DOMAIN overlays :
                  overlays[id].window_handle_value \notin old
                      => id \in ret.desired \ DOMAIN b

\* the call that returned last is remembered
CallGhost ==
    /\ UNCHANGED <<initialised, owed, env_failed, destroy_called>>
    /\ prev' = IF ret'.op = "refresh_overlays"
                THEN [ok |-> ret'.result = "Ok", ids |-> ret'.desired]
                ELSE IF ret'.op = "teardown_overlays" THEN NoCall
                ELSE prev

NextRepeat ==
    \/ MonitorChange /\ UNCHANGED <<observe, manager, avars, cvars, uvars, evars>> /\ CallGhost
    \/ refresh_overlays /\ ManagerOnly /\ CallGhost
    \/ teardown_overlays /\ ManagerOnly /\ CallGhost
    \/ refresh_overlays_loop /\ ManagerOnly /\ CallGhost
    \/ SetWindowPos_sends /\ ManagerOnly /\ CallGhost
    \/ SetWindowPos_returns /\ ManagerOnly /\ CallGhost
    \/ /\ \E h \in Hwnds, msg \in Messages : handle_overlay_window_message(h, msg)
       /\ ManagerOnly /\ CallGhost

\* the manager and its windows, every refresh_overlays recorded with the call
\* that returned before it began
SpecRepeat == Init("repeat", "unspawned", AnyMonitors, NoDisplays) /\ [][NextRepeat]_vars

\* C19: when a refresh_overlays returns Ok after a refresh_overlays that had
\* returned Ok and had enumerated the same monitors with the same rects, no
\* other call of the manager having returned between them, then no window
\* was created or destroyed during it and the overlays map and monitor_rects
\* are what they were when it began.
C19_RefreshIsIdempotent ==
    (ret.op = "refresh_overlays" /\ ret.result = "Ok" /\ ret.repeats) =>
        /\ windows = ret.before.windows
        /\ overlays = ret.before.overlays
        /\ monitor_rects = ret.before.monitor_rects

\* C13: between the calls of the manager monitor_rects has as many entries
\* as the overlays map, and the rect of every overlay entry occurs in it.
C13_MonitorsAgreeWithOverlays ==
    stack = <<>> =>
        /\ Len(monitors_call) = Cardinality(DOMAIN overlays)
        /\ \A id \in DOMAIN overlays : overlays[id].rect \in Range(monitors_call)

\* ------------------------------------------------------ enumerate_monitors
\* enumerate_monitors is entered: `monitors` is a new Vec and
\* EnumDisplayMonitors starts with the first monitor
enumerate_monitors_enter ==
    /\ enumeration.pc = "idle"
    /\ enumeration' = [pc |-> "enumerating", i |-> 1, monitors |-> <<>>, result |-> "none"]

\* EnumDisplayMonitors calls enum_proc for the next monitor and goes on while
\* the callback returns BOOL(1)
enum_proc_call ==
    /\ enumeration.pc = "enumerating"
    /\ enumeration.i <= Len(displays)
    /\ LET d == displays[enumeration.i]
           monitor_rect == MonitorRect(d.rcMonitor, d.dpi_ok, d.horizontal_dpi)
       IN  enumeration' =
               [enumeration EXCEPT
                   !.monitors = enum_proc(@, d.handle, d.info_ok, monitor_rect),
                   !.i = @ + 1,
                   !.pc = IF enum_proc_returns(d.info_ok) = 1 THEN "enumerating"
                          ELSE "stopped"]

\* EnumDisplayMonitors returns: nonzero only after every monitor was visited
\* with the callback returning BOOL(1); BOOL(0) makes enumerate_monitors
\* return Err, else it returns Ok(monitors)
EnumDisplayMonitors_returns ==
    /\ enumeration.pc \in {"enumerating", "stopped"}
    /\ \E result_ok \in BOOLEAN :
         /\ result_ok => /\ enumeration.pc = "enumerating"
                         /\ enumeration.i > Len(displays)
         /\ enumeration' =
                [enumeration EXCEPT
                    !.pc = "returned",
                    !.result = IF result_ok THEN "Ok" ELSE "Err",
                    !.monitors = IF result_ok THEN @ ELSE <<>>]

\* what a step of enumerate_monitors leaves alone
EnumerateOnly == UNCHANGED <<mvars, gvars, avars, cvars, uvars, displays>>

NextEnumerate ==
    \/ enumerate_monitors_enter /\ EnumerateOnly
    \/ enum_proc_call /\ EnumerateOnly
    \/ EnumDisplayMonitors_returns /\ EnumerateOnly

\* one call of enumerate_monitors for every answer of the OS within the bounds
SpecEnumerate ==
    Init("none", "unspawned", NoMonitors, AnyDisplays) /\ [][NextEnumerate]_vars

\* C20: when enumerate_monitors returns Ok, every monitor was visited, and
\* the returned vector has, in enumeration order, exactly the monitors whose
\* GetMonitorInfoW succeeded, each with its handle and x = left, y = top,
\* width = right - left, height = bottom - top of rcMonitor and with dpi the
\* horizontal DPI GetDpiForMonitor gave, or 96 when that call failed.
C20_EnumerationMatchesMonitors ==
    (enumeration.pc = "returned" /\ enumeration.result = "Ok") =>
        LET seen == SelectSeq(displays, LAMBDA d : d.info_ok)
            monitors == enumeration.monitors
        IN  /\ enumeration.i = Len(displays) + 1
            /\ Len(monitors) = Len(seen)
            /\ \A j \in 1..Len(seen) :
                   /\ monitors[j][1] = seen[j].handle
                   /\ monitors[j][2].x = seen[j].rcMonitor.left
                   /\ monitors[j][2].y = seen[j].rcMonitor.top
                   /\ monitors[j][2].width = seen[j].rcMonitor.right - seen[j].rcMonitor.left
                   /\ monitors[j][2].height = seen[j].rcMonitor.bottom - seen[j].rcMonitor.top
                   /\ monitors[j][2].dpi = IF seen[j].dpi_ok THEN seen[j].horizontal_dpi
                                           ELSE 96

\* Ok was returned for two monitors visited in descending handle order: the
\* first one's GetMonitorInfoW failed and it was skipped, the second has a
\* negative left edge, a width other than its height, and a failed
\* GetDpiForMonitor that left 144 in horizontal_dpi
C20_EnumerationWitness ==
    /\ enumeration.pc = "returned"
    /\ enumeration.result = "Ok"
    /\ Len(displays) = 2
    /\ displays[1].handle > displays[2].handle
    /\ ~displays[1].info_ok
    /\ displays[2].info_ok
    /\ ~displays[2].dpi_ok
    /\ displays[2].horizontal_dpi = 144
    /\ Len(enumeration.monitors) = 1
    /\ enumeration.monitors[1][2].x < 0
    /\ enumeration.monitors[1][2].width # enumeration.monitors[1][2].height
    /\ enumeration.monitors[1][2].dpi = 96

\* ------------------------------------------------------ run_app, the tray
\* what a step of run_app leaves alone
AppOnly == UNCHANGED <<mvars, gvars, uvars, evars>>

\* the main thread takes its next step
MainThread ==
    \/ run_app_start /\ AppOnly
    \/ PeekMessageW /\ AppOnly
    \/ DispatchMessageW /\ AppOnly
    \/ WaitMessage /\ AppOnly
    \/ drop_tray /\ AppOnly
    \/ DestroyWindow_overlay_hwnd /\ AppOnly
    \/ run_app_returns /\ AppOnly

NextApp ==
    \/ run_app_start /\ AppOnly
    \/ PeekMessageW /\ AppOnly
    \/ DispatchMessageW /\ AppOnly
    \/ WaitMessage /\ AppOnly
    \/ drop_tray /\ AppOnly
    \/ DestroyWindow_overlay_hwnd /\ AppOnly
    \/ run_app_returns /\ AppOnly
    \/ PostMessage /\ AppOnly
    \/ run_native /\ UNCHANGED <<mvars, gvars, avars, evars>>

\* run_app with no manager of overlay.rs (lib.rs does not use that module);
\* the main thread runs on
FairSpecApp ==
    /\ Init("none", "unspawned", NoMonitors, NoDisplays)
    /\ [][NextApp]_vars
    /\ WF_vars(MainThread)

AfterLoop == {"cleanup", "destroy", "return", "returned_ok"}

CleanupOrder == <<"drop(tray)", "DestroyWindow(overlay_hwnd)", "Ok">>

\* C7: the Exit item posts the quit message and run_app then eventually
\* returns Ok; the loop is left only with WM_QUIT retrieved; after the loop
\* the tray is dropped, then DestroyWindow is called on the overlay window,
\* then Ok is returned, in this order and nothing of it before the loop ends.
C7_ExitEndsRunApp ==
    /\ [](last.event.what = "exit_id" => quit_flag)
    /\ quit_flag ~> (app_pc = "returned_ok")
    /\ [](app_pc \in AfterLoop <=> message = WM_QUIT)
    /\ [](/\ cleanup = SubSeq(CleanupOrder, 1, Len(cleanup))
          /\ cleanup # <<>> => app_pc \in AfterLoop
          /\ tray = "dropped" <=> Len(cleanup) >= 1
          /\ app_pc = "returned_ok" <=> cleanup = CleanupOrder)

\* run_app returned Ok after Exit: the tray is dropped and the overlay window
\* destroyed
C7_ExitWitness ==
    /\ app_pc = "returned_ok"
    /\ tray = "dropped"
    /\ overlay_hwnd = "destroyed"
    /\ posts > 0

\* C8: a left click on the tray icon and the item Open Settings make exactly
\* one send of UiCommand::Show, which enters the channel when its receiver
\* exists; every other tray icon event, the item Exit and the messages of
\* the overlay window make no send and leave the channel as it is.
C8_ShowOnlyOnLeftClickAndSettings ==
    last.event # NoMsg =>
        IF last.event \in {Msg("tray_icon", "Click", "Left"),
                           Msg("menu", "settings_id", "None")}
        THEN /\ last.send_calls = 1
             /\ last.enqueued = IF last.receiver THEN 1 ELSE 0
        ELSE /\ last.send_calls = 0
             /\ last.enqueued = 0

\* a left click was handled after Open Settings was: two commands are in the
\* channel
C8_ShowWitness ==
    /\ last.event = Msg("tray_icon", "Click", "Left")
    /\ last.enqueued = 1
    /\ Len(command_channel) = 2

\* ------------------------------------------------------- the UI thread
\* what a step of the UI threads leaves alone
UiOnly == UNCHANGED <<mvars, gvars, avars, evars>>

NextUi ==
    \/ run_native /\ UiOnly
    \/ forwarder_loop /\ UiOnly
    \/ update /\ UiOnly
    \/ end_frame /\ UiOnly
    \/ process_viewport_commands /\ UiOnly
    \/ OsCloseRequest /\ UiOnly
    \/ send_Show /\ UiOnly

\* after spawn_ui_thread returned; the UI thread and the forwarder run on
FairSpecUi ==
    /\ Init("none", "spawned", NoMonitors, NoDisplays)
    /\ [][NextUi]_vars
    /\ WF_vars(forwarder_loop /\ UiOnly)
    /\ WF_vars(UiFrame /\ UiOnly)

\* C9: once the UI is created the forwarder eventually receives every Show
\* in the channel; it handles the commands one at a time in the order they
\* were sent; handling one sends Visible(true) and Focus and requests a
\* repaint; a Show sent before the UI is created stays in the channel.
C9_ShowIsForwarded ==
    /\ \A c \in 1..MaxShows :
           (forwarder = "recv" /\ c \in Range(command_channel)) ~> (c \in Range(handled))
    /\ [](handled \o command_channel = [c \in 1..sent |-> c])
    /\ [][handled' # handled =>
             /\ Len(handled') = Len(handled) + 1
             /\ viewport_cmds' = viewport_cmds \o <<"Visible(true)", "Focus">>
             /\ repaint']_vars

\* two commands were sent before the UI was created and the forwarder has
\* handled both
C9_ShowWitness ==
    /\ handled = <<1, 2>>
    /\ ui_pc = "running"

\* C10: a close request never closes the settings window and never ends the
\* UI thread; an update that observes close_requested sends Visible(false)
\* and CancelClose, the window then becomes hidden, and a Show in the
\* channel while the window is hidden makes it visible again.
C10_CloseOnlyHides ==
    /\ [](ui_pc # "closed" /\ ~closing)
    /\ [][(frame_pc = "idle" /\ frame_pc' = "end_frame" /\ close_requested) =>
             viewport_cmds' = viewport_cmds \o <<"Visible(false)", "CancelClose">>]_vars
    /\ (frame_close /\ frame_pc = "end_frame") ~> ~visible
    /\ \A c \in 1..MaxShows :
           (~visible /\ forwarder = "recv" /\ c \in Range(command_channel)) ~> visible

\* a close request hid the window and the forwarder has shown it again, its
\* viewport commands not yet taken by a frame
C10_CloseWitness ==
    /\ visible
    /\ frame_close
    /\ frame_pc = "idle"
    /\ viewport_cmds = <<"Visible(true)", "Focus">>
    /\ ui_pc = "running"

====
